---- MODULE Spec2Model ----
(***************************************************************************)
(* Model of the notes service: the document upload request                 *)
(* (routes_documents.upload_document driving FileProcessor) and the cache  *)
(* store insert of db/crud.py, over the file_summaries table.              *)
(*                                                                         *)
(* Each request is a process with its own database session.  A request is  *)
(* split at the points where it touches the shared table (SELECT, INSERT,  *)
(* COMMIT); everything between two such points is local and atomic.        *)
(* Every statement reads the rows committed so far (read committed, the    *)
(* default of the PostgreSQL database config.py points at).                *)
(***************************************************************************)
EXTENDS Integers, Sequences, FiniteSets, TLC

\* ---------------------------------------------------------------- bounds
NumProcs == 2
MaxElapsed == 4
NumCallers == 2

Procs == 1..NumProcs
Callers == 1..NumCallers

\* ------------------------------------------------------- program constants
MAX_INPUT_TOKENS == 1048576

ALLOWED_FILE_EXTENSIONS == {".pdf", ".docx", ".doc", ".txt", ".ppt", ".pptx"}

\* ------------------------------------------------------------------ inputs
\* An uploaded file name: the part before the last dot, the lower-cased
\* extension with its dot, and whether the name contains a path separator.
FileNames ==
  { [stem |-> "a",   ext |-> ".pdf", nested |-> FALSE],
    [stem |-> "a",   ext |-> ".txt", nested |-> FALSE],
    [stem |-> "d/a", ext |-> ".pdf", nested |-> TRUE],
    [stem |-> "a",   ext |-> ".exe", nested |-> FALSE] }

\* Uploaded byte contents.  "plain" is a text document that is not a PDF,
\* the others are PDFs.
Contents == {"plain", "pdf", "blank", "huge"}

IsPdf(b) == b # "plain"

\* The pages of a content as page.get_text("text") returns them: blank
\* says whether the page's text.strip() is empty, ntokens is the number of
\* tokens encoding.encode gives the page's text.
Page(bl, n) == [blank |-> bl, ntokens |-> n]

PagesOf(b) ==
  CASE b = "plain" -> <<Page(FALSE, MAX_INPUT_TOKENS - 3), Page(TRUE, 1), Page(FALSE, 2)>>
    [] b = "pdf"   -> <<Page(FALSE, 3)>>
    [] b = "blank" -> <<Page(TRUE, 2), Page(TRUE, 0)>>
    [] b = "huge"  -> <<Page(FALSE, MAX_INPUT_TOKENS - 1), Page(FALSE, 1)>>

\* URLs the YouTube route is asked about.
Urls == {"url1", "url2"}

\* Texts the LLM can generate, and the marker generate_content returns when
\* the call fails.
Notes == {"notes1", "notes2"}
ErrorMarker == "[Error: e]"

\* ------------------------------------------------------------------- state
VARIABLES
  pc,         \* position of each upload request
  file,       \* the uploaded file of each request: [name, bytes]
  tempDir,    \* whether the request's temporary directory exists on disk
  trace,      \* the stages process_file has run, in order
  local,      \* process_file locals: rewritten_notes, token_usage
  result,     \* what process_file returned or raised
  resp,       \* the HTTP response of the request
  rowAtEntry, \* whether a row for the hash was committed when process_file was entered
  rows,       \* committed rows of file_summaries, in commit order
  pending,    \* the uncommitted INSERT of each session, if any
  cpc,        \* position of each direct caller of crud.save_file_summary
  cargs,      \* its arguments
  cout,       \* its outcome
  cm,         \* a call of clean_markdown and a second call on its result
  sp,         \* a call of split_text_smart: its arguments and locals
  ys,         \* a call of generate_youtube_summary: its locals
  rw          \* a call of rewrite_notes_full and what came of it

vars == <<pc, file, tempDir, trace, local, result, resp, rowAtEntry,
          rows, pending, cpc, cargs, cout, cm, sp, ys, rw>>

docVars == <<pc, file, tempDir, trace, local, result, resp, rowAtEntry>>
crudVars == <<cpc, cargs, cout>>
funVars == <<cm, sp, ys, rw>>

\* Sessions: upload requests and crud callers each own one.
DocSession(p) == <<"doc", p>>
CrudSession(c) == <<"crud", c>>
Sessions == {DocSession(p) : p \in Procs} \cup {CrudSession(c) : c \in Callers}

NoFile == [name |-> [stem |-> "", ext |-> "", nested |-> FALSE], bytes |-> ""]
NoText == [blank |-> FALSE, ntokens |-> -1]
NoLocal == [pdf_text |-> NoText, rewritten_notes |-> "", token_usage |-> "None",
            llm_failed |-> FALSE]
NoResult == [kind |-> "none"]
NoResp == [status |-> 0]
NoRow == [file_hash |-> <<>>, file_name |-> "", summary_text |-> "", token_usage |-> ""]

\* ----------------------------------------------------------------- helpers
\* FileProcessor._compute_hash: SHA-256 of the file's bytes; the file name
\* takes no part.  Distinct contents get distinct digests.
compute_hash(b) == <<"sha256", b>>

\* json.dumps / json.loads of a token_usage value.  A usage value is
\* "metrics" (the dict of counters), "error" (the dict with an error field)
\* or "None".
json_dumps(u) ==
  CASE u = "metrics" -> "{counters}"
    [] u = "error"   -> "{error}"
    [] u = "None"    -> "null"

json_loads(s) ==
  CASE s = "{counters}" -> "metrics"
    [] s = "{error}"    -> "error"
    [] s = "null"       -> "None"

\* SQL NULL in the token_usage column.
SqlNull == ""

\* json.loads(existing[1]) if existing[1] else None
LoadUsage(col) == IF col # SqlNull THEN json_loads(col) ELSE "None"

\* Indexes of the committed rows with a given file_hash.
RowsFor(h) == {i \in DOMAIN rows : rows[i].file_hash = h}

\* SELECT ... WHERE file_hash = :h, fetchone(): the first matching row.
FetchOne(h) ==
  rows[CHOOSE i \in RowsFor(h) : \A j \in RowsFor(h) : i <= j]

\* The uniqueness constraint left off the column.
UniqueViolation_dropped(h) == FALSE

\* file_hash is declared unique: an INSERT of a hash that a committed row
\* already holds raises IntegrityError.
UniqueViolation(h) == RowsFor(h) # {}

\* The unique index makes an INSERT wait while another session holds an
\* uncommitted row with the same hash.
InsertBlocked(s, h) ==
  \E t \in Sessions : t # s /\ pending[t] # NoRow /\ pending[t].file_hash = h

\* COMMIT: the row the session inserted joins the committed rows of the
\* table; no statement of the program updates or deletes a row.
CommitRow_overwrite(rs, r) ==
  IF rs = <<>> THEN <<r>> ELSE [rs EXCEPT ![Len(rs)] = r]
CommitRow(rs, r) == Append(rs, r)

\* A Python value placed under structured_notes in a response body.
PyStr(t) == [type |-> "str", text |-> t]
PyNone == [type |-> "None"]

\* crud.get_summary_by_file_hash: the dict of the first row with the hash,
\* its JSON column decoded, or None.
get_summary_by_file_hash(h) ==
  IF RowsFor(h) # {}
    THEN [type |-> "dict", summary_text |-> FetchOne(h).summary_text,
          token_usage |-> LoadUsage(FetchOne(h).token_usage)]
    ELSE PyNone

\* round(x, 2) of an elapsed time given in thirds of a hundredth of a
\* second; the value is in hundredths.
Round2(e) == (2 * e + 3) \div 6

\* FileProcessor._convert_to_pdf: a name ending in .pdf is returned as it
\* is; anything else goes through LibreOffice, which succeeds (lo_ok) or
\* makes subprocess.run raise.  valid says whether the returned path holds
\* a well-formed PDF.
convert_to_pdf(fn, b, lo_ok) ==
  IF fn.ext = ".pdf"
    THEN [ok |-> TRUE, valid |-> IsPdf(b)]
    ELSE [ok |-> lo_ok, valid |-> lo_ok]

\* "\n".join(texts): the tokens of the texts and one for each separator.
RECURSIVE JoinTokens(_)
JoinTokens(texts) ==
  IF texts = <<>> THEN 0
  ELSE IF Len(texts) = 1 THEN texts[1].ntokens
  ELSE texts[1].ntokens + 1 + JoinTokens(Tail(texts))

NonBlank(page) == ~page.blank

\* FileProcessor._extract_text_from_pdf: fitz.open raises on a file that
\* is not a PDF; the text is the pages that are not blank, joined by
\* newlines.
extract_text_from_pdf(conv, b) ==
  IF conv.valid
    THEN LET kept == SelectSeq(PagesOf(b), NonBlank)
         IN  [ok |-> TRUE,
              text |-> [blank |-> kept = <<>>, ntokens |-> JoinTokens(kept)]]
    ELSE [ok |-> FALSE, text |-> NoText]

\* The empty-text check left out.
TextIsEmpty_never(text) == FALSE

\* if not pdf_text.strip()
TextIsEmpty(text) == text.blank

\* The limit compared with >= instead of >.
TokenLimitExceeded_ge(text) == text.ntokens >= MAX_INPUT_TOKENS

\* FileProcessor._check_token_limit raises when this holds.
TokenLimitExceeded(text) == text.ntokens > MAX_INPUT_TOKENS

\* The stages process_file runs before its cache lookup, and how they end.
PreLookup(fn, b, lo_ok) ==
  LET conv == convert_to_pdf(fn, b, lo_ok)
      ext  == extract_text_from_pdf(conv, b)
  IN  IF ~conv.ok
        THEN [stages |-> <<"convert">>, text |-> NoText,
              error |-> "CalledProcessError"]
      ELSE IF ~ext.ok
        THEN [stages |-> <<"convert", "extract">>, text |-> NoText,
              error |-> "FileDataError"]
      ELSE IF TextIsEmpty(ext.text)
        THEN [stages |-> <<"convert", "extract">>, text |-> ext.text,
              error |-> "ValueError: No text found in uploaded document."]
      ELSE IF TokenLimitExceeded(ext.text)
        THEN [stages |-> <<"convert", "extract", "token_check">>,
              text |-> ext.text, error |-> "ValueError: Document too large"]
      ELSE [stages |-> <<"convert", "extract", "token_check">>,
            text |-> ext.text, error |-> ""]

\* The cache-hit dict built with the flag of the miss path.
HitResult_unflagged(f, row) ==
  [kind |-> "return", file_name |-> f.name, file_hash |-> compute_hash(f.bytes),
   structured_notes |-> row.summary_text,
   token_usage |-> LoadUsage(row.token_usage),
   processing_time |-> 0, cached |-> FALSE]

\* The dict process_file returns on a cache hit.
HitResult(f, row) ==
  [kind |-> "return", file_name |-> f.name, file_hash |-> compute_hash(f.bytes),
   structured_notes |-> row.summary_text,
   token_usage |-> LoadUsage(row.token_usage),
   processing_time |-> 0, cached |-> TRUE]

\* The dict process_file returns at step 6.
FinalResult(f, loc, e) ==
  [kind |-> "return", file_name |-> f.name, file_hash |-> compute_hash(f.bytes),
   structured_notes |-> loc.rewritten_notes,
   token_usage |-> loc.token_usage,
   processing_time |-> Round2(e), cached |-> FALSE]

Raised(err) == [kind |-> "raise", error |-> err]

\* upload_document's response to what process_file returned or raised.
RouteResponse(res) ==
  IF res.kind = "return"
    THEN [status |-> 200, structured_notes |-> PyStr(res.structured_notes),
          cached |-> FALSE]
    ELSE [status |-> 500, detail |-> res.error]

\* The row process_file inserts.
NewRow(f, loc) ==
  [file_hash |-> compute_hash(f.bytes), file_name |-> f.name,
   summary_text |-> loc.rewritten_notes,
   token_usage |-> json_dumps(loc.token_usage)]

\* -------------------------------------------------------------------- Init
\* No call of a function of gemini_model.py is under way.
NoCall == [pc |-> "none"]

\* The service after start-up: no request, an empty table.
ServiceInit ==
  /\ pc = [p \in Procs |-> "idle"]
  /\ file = [p \in Procs |-> NoFile]
  /\ tempDir = [p \in Procs |-> FALSE]
  /\ trace = [p \in Procs |-> <<>>]
  /\ local = [p \in Procs |-> NoLocal]
  /\ result = [p \in Procs |-> NoResult]
  /\ resp = [p \in Procs |-> NoResp]
  /\ rowAtEntry = [p \in Procs |-> FALSE]
  /\ rows = <<>>
  /\ pending = [s \in Sessions |-> NoRow]
  /\ cpc = [c \in Callers |-> "idle"]
  /\ cargs = [c \in Callers |-> NoRow]
  /\ cout = [c \in Callers |-> "none"]

Init ==
  /\ ServiceInit
  /\ cm = NoCall
  /\ sp = NoCall
  /\ ys = NoCall
  /\ rw = NoCall

\* ------------------------------------------------- upload_document request
\* process_file leaves through its finally clause (the temporary directory
\* is removed) and upload_document turns the outcome into the response.
Leave(p, res, stages) ==
  /\ result' = [result EXCEPT ![p] = res]
  /\ trace' = [trace EXCEPT ![p] = trace[p] \o stages]
  /\ tempDir' = [tempDir EXCEPT ![p] = FALSE]
  /\ resp' = [resp EXCEPT ![p] = RouteResponse(res)]
  /\ pc' = [pc EXCEPT ![p] = "done"]

\* POST /v1/documents/upload arrives: the extension check, then
\* FileProcessor.__init__ (mkdtemp, copy of the upload, hash).
Upload(p, fn, b) ==
  /\ pc[p] = "idle"
  /\ \A q \in Procs : q < p => pc[q] # "idle"
  /\ file' = [file EXCEPT ![p] = [name |-> fn, bytes |-> b]]
  /\ IF fn.ext \notin ALLOWED_FILE_EXTENSIONS
       THEN /\ resp' = [resp EXCEPT ![p] =
                          [status |-> 400, detail |-> "File type not supported"]]
            /\ pc' = [pc EXCEPT ![p] = "done"]
            /\ UNCHANGED tempDir
       ELSE /\ tempDir' = [tempDir EXCEPT ![p] = TRUE]
            /\ IF fn.nested
                 \* open(temp_path, "wb") raises: the directory of the
                 \* path does not exist
                 THEN /\ resp' = [resp EXCEPT ![p] =
                                    [status |-> 500, detail |-> "FileNotFoundError"]]
                      /\ pc' = [pc EXCEPT ![p] = "done"]
                 ELSE /\ pc' = [pc EXCEPT ![p] = "route_lookup"]
                      /\ UNCHANGED resp
  /\ UNCHANGED <<trace, local, result, rowAtEntry, rows, pending, crudVars, funVars>>

\* cached = get_summary_by_file_hash(db, processor.file_hash)
RouteLookup(p) ==
  /\ pc[p] = "route_lookup"
  /\ LET cached == get_summary_by_file_hash(compute_hash(file[p].bytes))
     IN  IF cached # PyNone
           THEN /\ resp' = [resp EXCEPT ![p] =
                              [status |-> 200, structured_notes |-> cached,
                               cached |-> TRUE]]
                /\ pc' = [pc EXCEPT ![p] = "done"]
           ELSE /\ pc' = [pc EXCEPT ![p] = "process_file"]
                /\ UNCHANGED resp
  /\ UNCHANGED <<file, tempDir, trace, local, result, rowAtEntry, rows,
                 pending, crudVars, funVars>>

\* Steps 1 and 2 of a process_file that records a failed invocation in
\* file_summaries before it raises.
Extract_saving(p) ==
  /\ pc[p] = "process_file"
  /\ rowAtEntry' = [rowAtEntry EXCEPT
                      ![p] = RowsFor(compute_hash(file[p].bytes)) # {}]
  /\ \E lo_ok \in BOOLEAN :
       LET pre == PreLookup(file[p].name, file[p].bytes, lo_ok)
       IN  /\ local' = [local EXCEPT ![p].pdf_text = pre.text]
           /\ IF pre.error # ""
                THEN /\ Leave(p, Raised(pre.error), pre.stages)
                     /\ rows' = Append(rows,
                                  [file_hash |-> compute_hash(file[p].bytes),
                                   file_name |-> file[p].name,
                                   summary_text |-> pre.error,
                                   token_usage |-> SqlNull])
                ELSE /\ trace' = [trace EXCEPT ![p] = trace[p] \o pre.stages]
                     /\ pc' = [pc EXCEPT ![p] = "lookup"]
                     /\ UNCHANGED <<tempDir, result, resp, rows>>
  /\ UNCHANGED <<file, pending, crudVars, funVars>>

\* process_file, steps 1 and 2: conversion, extraction, the empty-text
\* check and the token-limit check.
Extract(p) ==
  /\ pc[p] = "process_file"
  /\ rowAtEntry' = [rowAtEntry EXCEPT
                      ![p] = RowsFor(compute_hash(file[p].bytes)) # {}]
  /\ \E lo_ok \in BOOLEAN :
       LET pre == PreLookup(file[p].name, file[p].bytes, lo_ok)
       IN  /\ local' = [local EXCEPT ![p].pdf_text = pre.text]
           /\ IF pre.error # ""
                THEN Leave(p, Raised(pre.error), pre.stages)
                ELSE /\ trace' = [trace EXCEPT ![p] = trace[p] \o pre.stages]
                     /\ pc' = [pc EXCEPT ![p] = "lookup"]
                     /\ UNCHANGED <<tempDir, result, resp>>
  /\ UNCHANGED <<file, rows, pending, crudVars, funVars>>

\* process_file, step 3: the cache lookup.
Lookup(p) ==
  /\ pc[p] = "lookup"
  /\ LET h == compute_hash(file[p].bytes)
     IN  IF RowsFor(h) # {}
           THEN Leave(p, HitResult(file[p], FetchOne(h)), <<"lookup">>)
           ELSE /\ trace' = [trace EXCEPT ![p] = Append(trace[p], "lookup")]
                /\ pc' = [pc EXCEPT ![p] = "llm"]
                /\ UNCHANGED <<tempDir, result, resp>>
  /\ UNCHANGED <<file, local, rowAtEntry, rows, pending, crudVars, funVars>>

\* generate_content: the text and usage of a successful call, or the
\* error marker and the usage record with the error field.
generate_content(ok, n) ==
  IF ok
    THEN [text |-> n, usage |-> "metrics"]
    ELSE [text |-> ErrorMarker, usage |-> "error"]

\* process_file, step 4: rewrite_notes_full.
Llm(p) ==
  /\ pc[p] = "llm"
  /\ \E ok \in BOOLEAN, n \in Notes :
       LET out == generate_content(ok, n)
       IN  local' = [local EXCEPT ![p].rewritten_notes = out.text,
                                  ![p].token_usage = out.usage,
                                  ![p].llm_failed = ~ok]
  /\ trace' = [trace EXCEPT ![p] = Append(trace[p], "llm")]
  /\ pc' = [pc EXCEPT ![p] = "insert"]
  /\ UNCHANGED <<file, tempDir, result, resp, rowAtEntry, rows, pending, crudVars, funVars>>

\* process_file, step 5: the INSERT.  On IntegrityError the session rolls
\* back, re-reads the row and the invocation goes on to step 6.
Insert(p) ==
  /\ pc[p] = "insert"
  /\ LET h == compute_hash(file[p].bytes)
         s == DocSession(p)
     IN  /\ ~InsertBlocked(s, h)
         /\ IF UniqueViolation(h)
              THEN LET existing == FetchOne(h)
                       loc == [local[p] EXCEPT
                                 !.rewritten_notes = existing.summary_text,
                                 !.token_usage = LoadUsage(existing.token_usage)]
                   IN  /\ local' = [local EXCEPT ![p] = loc]
                       /\ \E e \in 1..MaxElapsed :
                            Leave(p, FinalResult(file[p], loc, e),
                                  <<"insert", "rollback", "reread">>)
                       /\ UNCHANGED pending
              ELSE /\ pending' = [pending EXCEPT ![s] = NewRow(file[p], local[p])]
                   /\ trace' = [trace EXCEPT ![p] = Append(trace[p], "insert")]
                   /\ pc' = [pc EXCEPT ![p] = "commit"]
                   /\ UNCHANGED <<local, tempDir, result, resp>>
  /\ UNCHANGED <<file, rowAtEntry, rows, crudVars, funVars>>

\* process_file, step 5 and 6: the COMMIT, then the result.
Commit(p) ==
  /\ pc[p] = "commit"
  /\ rows' = CommitRow(rows, pending[DocSession(p)])
  /\ pending' = [pending EXCEPT ![DocSession(p)] = NoRow]
  /\ \E e \in 1..MaxElapsed :
       Leave(p, FinalResult(file[p], local[p], e), <<"commit">>)
  /\ UNCHANGED <<file, local, rowAtEntry, crudVars, funVars>>

DocNext ==
  \E p \in Procs :
    \/ \E fn \in FileNames, b \in Contents : Upload(p, fn, b)
    \/ RouteLookup(p)
    \/ Extract(p)
    \/ Lookup(p)
    \/ Llm(p)
    \/ Insert(p)
    \/ Commit(p)

Next == DocNext

Spec == Init /\ [][Next]_vars

\* ------------------------------------------------- crud.save_file_summary
\* youtube_notes calls save_file_summary(db, url_hash, "youtube_audio",
\* notes) inside its try block.  The constructor call above it passes a
\* keyword YouTubeProcessor.__init__ does not take, so the route never gets
\* that far; the callers here enter at the call of save_file_summary with
\* the arguments the route passes.
url_hash(u) == <<"sha256", u>>

\* summary = FileSummary(...); db.add(summary)
SaveCall(c, u, n) ==
  /\ cpc[c] = "idle"
  /\ \A d \in Callers : d < c => cpc[d] # "idle"
  /\ cargs' = [cargs EXCEPT ![c] =
                 [file_hash |-> url_hash(u), file_name |-> "youtube_audio",
                  summary_text |-> n, token_usage |-> json_dumps("None")]]
  /\ cpc' = [cpc EXCEPT ![c] = "flush"]
  /\ UNCHANGED <<cout, rows, pending, docVars, funVars>>

\* db.commit(), first half: the flush sends the INSERT.  An IntegrityError
\* leaves save_file_summary uncaught; youtube_notes answers 500.
SaveFlush(c) ==
  /\ cpc[c] = "flush"
  /\ ~InsertBlocked(CrudSession(c), cargs[c].file_hash)
  /\ IF UniqueViolation(cargs[c].file_hash)
       THEN /\ cout' = [cout EXCEPT ![c] = "IntegrityError"]
            /\ cpc' = [cpc EXCEPT ![c] = "done"]
            /\ UNCHANGED pending
       ELSE /\ pending' = [pending EXCEPT ![CrudSession(c)] = cargs[c]]
            /\ cpc' = [cpc EXCEPT ![c] = "commit"]
            /\ UNCHANGED cout
  /\ UNCHANGED <<cargs, rows, docVars, funVars>>

\* db.commit(), second half, then db.refresh(summary); return summary
SaveCommit(c) ==
  /\ cpc[c] = "commit"
  /\ rows' = CommitRow(rows, pending[CrudSession(c)])
  /\ pending' = [pending EXCEPT ![CrudSession(c)] = NoRow]
  /\ cout' = [cout EXCEPT ![c] = "returned"]
  /\ cpc' = [cpc EXCEPT ![c] = "done"]
  /\ UNCHANGED <<cargs, docVars, funVars>>

CrudNext ==
  \E c \in Callers :
    \/ \E u \in Urls, n \in Notes : SaveCall(c, u, n)
    \/ SaveFlush(c)
    \/ SaveCommit(c)

SpecCrud == Init /\ [][CrudNext]_vars

\* ------------------------------------------------------------------ claims
Ran(p, stage) == \E i \in DOMAIN trace[p] : trace[p][i] = stage
Returned(p) == pc[p] = "done" /\ result[p].kind = "return"
Raise(p) == pc[p] = "done" /\ result[p].kind = "raise"
HashOf(p) == compute_hash(file[p].bytes)

\* C1: two process_file invocations on the same bytes that both missed the
\* cache lookup have, once both returned, exactly one row for the hash and
\* the same structured_notes, equal to the row's summary_text.
ClaimC1 ==
  \A p, q \in Procs :
    ( /\ p # q
      /\ file[p].bytes = file[q].bytes
      /\ Ran(p, "llm") /\ Ran(q, "llm")
      /\ Returned(p) /\ Returned(q) )
    => /\ Cardinality(RowsFor(HashOf(p))) = 1
       /\ result[p].structured_notes = result[q].structured_notes
       /\ result[p].structured_notes = FetchOne(HashOf(p)).summary_text

\* Two invocations on the same bytes both missed and both returned, one of
\* them after losing the insert race, and their LLM calls had produced
\* different texts.
WitnessC1 ==
  \E p, q \in Procs :
    /\ p # q
    /\ file[p].bytes = file[q].bytes
    /\ Returned(p) /\ Returned(q)
    /\ Ran(p, "commit") /\ Ran(q, "rollback")
    /\ local[p].llm_failed # local[q].llm_failed

\* C2: a process_file invocation entered when an earlier invocation on
\* the same bytes has generated and persisted its notes returns the stored
\* summary_text with cached = TRUE, and the hash still has exactly one row.
ClaimC2 ==
  \A p \in Procs :
    ( /\ pc[p] = "done"
      /\ rowAtEntry[p]
      /\ FetchOne(HashOf(p)).summary_text \in Notes )
    => /\ result[p].kind = "return"
       /\ result[p].cached = TRUE
       /\ Cardinality(RowsFor(HashOf(p))) = 1
       /\ result[p].structured_notes = FetchOne(HashOf(p)).summary_text

\* C3: a returned cache hit has processing_time = 0 and cached = TRUE; a
\* returned cache miss has cached = FALSE and processing_time > 0.
ClaimC3 ==
  \A p \in Procs :
    Returned(p)
    => IF Ran(p, "llm")
         THEN result[p].cached = FALSE /\ result[p].processing_time > 0
         ELSE result[p].cached = TRUE /\ result[p].processing_time = 0

\* C3, amended: a returned cache hit has processing_time = 0 and
\* cached = TRUE; a returned cache miss has cached = FALSE and a
\* processing_time >= 0, the elapsed time rounded to two decimals.
ClaimC3Amended ==
  \A p \in Procs :
    Returned(p)
    => IF Ran(p, "llm")
         THEN result[p].cached = FALSE /\ result[p].processing_time >= 0
         ELSE result[p].cached = TRUE /\ result[p].processing_time = 0

\* A hit has been returned, and a miss whose elapsed time rounded to 0.
WitnessC3 ==
  \E p, q \in Procs :
    /\ Returned(p) /\ ~Ran(p, "llm")
    /\ Returned(q) /\ Ran(q, "llm") /\ result[q].processing_time = 0

\* C4: the invocation that lost the insert race returns cached = TRUE.
ClaimC4 ==
  \A p \in Procs :
    (Returned(p) /\ Ran(p, "rollback")) => result[p].cached = TRUE

\* C5: save_file_summary never lets the uniqueness violation out: every
\* finished call has returned a record.
ClaimC5 ==
  \A c \in Callers : cpc[c] = "done" => cout[c] = "returned"

\* C6: an invocation whose LLM call failed ends in a raise, and no row
\* holds the error marker as its summary_text.
ClaimC6 ==
  /\ \A p \in Procs : (pc[p] = "done" /\ local[p].llm_failed) => Raise(p)
  /\ \A i \in DOMAIN rows : rows[i].summary_text # ErrorMarker

\* C7: a finished request has no temporary directory left.
ClaimC7 ==
  \A p \in Procs : pc[p] = "done" => ~tempDir[p]

\* C8: an invocation entered when a row for its hash exists runs no
\* conversion, extraction, token check or LLM call, and ends returning the
\* cached result.
ClaimC8 ==
  \A p \in Procs :
    rowAtEntry[p]
    => /\ \A st \in {"convert", "extract", "token_check", "llm"} : ~Ran(p, st)
       /\ pc[p] = "done" => (Returned(p) /\ result[p].cached = TRUE)

\* C9: an invocation whose extracted text is empty has ended raising the
\* no-text error, without an LLM call and without a result body.
ClaimC9 ==
  \A p \in Procs :
    (local[p].pdf_text # NoText /\ local[p].pdf_text.blank)
    => /\ Raise(p)
       /\ result[p].error = "ValueError: No text found in uploaded document."
       /\ ~Ran(p, "llm")
       /\ resp[p] = [status |-> 500, detail |-> result[p].error]

WitnessC9 ==
  \E p \in Procs :
    local[p].pdf_text # NoText /\ local[p].pdf_text.blank /\ pc[p] = "done"

\* C10: an invocation whose extracted text has more than MAX_INPUT_TOKENS
\* tokens has ended raising the size error with no LLM call made; a text
\* of exactly MAX_INPUT_TOKENS tokens passes the check; and every LLM call
\* comes after the token check.
ClaimC10 ==
  \A p \in Procs :
    LET t == local[p].pdf_text
    IN  /\ (t # NoText /\ ~t.blank /\ t.ntokens > MAX_INPUT_TOKENS)
             => /\ Raise(p)
                /\ result[p].error = "ValueError: Document too large"
                /\ ~Ran(p, "llm")
        /\ (t # NoText /\ ~t.blank /\ t.ntokens = MAX_INPUT_TOKENS)
             => /\ Ran(p, "token_check")
                /\ ~(Raise(p) /\ result[p].error = "ValueError: Document too large")
        /\ \A i \in DOMAIN trace[p] :
             trace[p][i] = "llm" => \E j \in 1..(i - 1) : trace[p][j] = "token_check"

\* One invocation was stopped by the size limit and another, with exactly
\* MAX_INPUT_TOKENS tokens, went on to its LLM call.
WitnessC10 ==
  \E p, q \in Procs :
    /\ local[p].pdf_text.ntokens = MAX_INPUT_TOKENS + 1 /\ Raise(p)
    /\ local[q].pdf_text.ntokens = MAX_INPUT_TOKENS /\ Ran(q, "llm")


\* ------------------------------------------------ gemini_model: text tools
\* A text is a sequence of characters; each character carries the index of
\* the segment summary it came from (0 when there is none).
\* Characters are one-letter strings; the backslash, the backtick, the
\* line feed and the carriage return are written by name.
Bsl == "BACKSLASH"
Btk == "BACKTICK"
Lf == "LF"
Cr == "CR"
Spc == " "

Ch(c, k) == [ch |-> c, seg |-> k]
Str(cs, k) == [i \in 1..Len(cs) |-> Ch(cs[i], k)]
Plain(t) == [i \in 1..Len(t) |-> t[i].ch]

\* All texts of at most n characters over an alphabet, with segment 0.
TextsUpTo(alphabet, n) ==
  UNION {[1..k -> {Ch(c, 0) : c \in alphabet}] : k \in 0..n}

StartsWith(t, pat) ==
  /\ Len(t) >= Len(pat)
  /\ \A i \in 1..Len(pat) : t[i].ch = pat[i]

\* str.replace(old, new): the occurrences of old, found left to right
\* without overlap, replaced by new.
RECURSIVE str_replace(_, _, _)
str_replace(t, old, new) ==
  IF t = <<>> THEN <<>>
  ELSE IF StartsWith(t, old)
    THEN Str(new, t[1].seg) \o str_replace(SubSeq(t, Len(old) + 1, Len(t)), old, new)
    ELSE <<t[1]>> \o str_replace(Tail(t), old, new)

\* str.splitlines(): the pieces between line breaks; a break at the very
\* end adds no piece.
RECURSIVE splitlines_from(_, _)
splitlines_from(t, cur) ==
  IF t = <<>> THEN (IF cur = <<>> THEN <<>> ELSE <<cur>>)
  ELSE IF t[1].ch \in {Lf, Cr}
    THEN <<cur>> \o
         splitlines_from(IF t[1].ch = Cr /\ Len(t) >= 2 /\ t[2].ch = Lf
                           THEN SubSeq(t, 3, Len(t)) ELSE Tail(t), <<>>)
    ELSE splitlines_from(Tail(t), Append(cur, t[1]))

splitlines(t) == splitlines_from(t, <<>>)

IsSpace(c) == c \in {Spc, Lf, Cr}

\* str.strip()
RECURSIVE lstrip(_)
lstrip(t) ==
  IF t # <<>> /\ IsSpace(t[1].ch) THEN lstrip(Tail(t)) ELSE t

RECURSIVE rstrip(_)
rstrip(t) ==
  IF t # <<>> /\ IsSpace(t[Len(t)].ch) THEN rstrip(SubSeq(t, 1, Len(t) - 1)) ELSE t

strip(t) == rstrip(lstrip(t))

\* sep.join(parts); a separator carries the segment of the part before it.
RECURSIVE join(_, _)
join(sep, parts) ==
  IF parts = <<>> THEN <<>>
  ELSE IF Len(parts) = 1 THEN parts[1]
  ELSE parts[1]
       \o Str(sep, IF parts[1] = <<>> THEN 0 ELSE parts[1][Len(parts[1])].seg)
       \o join(sep, Tail(parts))

NonEmptyLine(line) == line # <<>>

\* The chain of replacements of clean_markdown, in the order of the code.
Replacements(t) ==
  LET t1 == str_replace(t,  <<Bsl, "n">>, <<Lf>>)
      t2 == str_replace(t1, <<Bsl, Btk>>, <<Btk>>)
      t3 == str_replace(t2, <<"*", "*", Spc, "*", "*">>, <<"*", "*">>)
      t4 == str_replace(t3, <<Spc, Spc, "*">>, <<"-">>)
      t5 == str_replace(t4, <<Spc, Spc, "-">>, <<"-">>)
  IN  str_replace(t5, <<Cr>>, <<>>)

\* clean_markdown
clean_markdown(t) ==
  IF t = <<>> THEN <<>>
  ELSE LET raw   == splitlines(Replacements(t))
           lines == [i \in 1..Len(raw) |-> strip(raw[i])]
       IN  strip(join(<<Lf>>, SelectSeq(lines, NonEmptyLine)))

\* ---------------------------------------------- clean_markdown, called twice
MaxCleanLen == 3
CleanChars == {Bsl, "n", Btk, "*", Spc, "-", Lf, Cr}

InitClean ==
  /\ ServiceInit
  /\ cm \in {[pc |-> "called", text |-> t, once |-> <<>>, twice |-> <<>>] :
               t \in TextsUpTo(CleanChars, MaxCleanLen)}
  /\ sp = NoCall
  /\ ys = NoCall
  /\ rw = NoCall

\* once = clean_markdown(text)
CleanOnce ==
  /\ cm.pc = "called"
  /\ cm' = [cm EXCEPT !.pc = "cleaned", !.once = clean_markdown(cm.text)]
  /\ UNCHANGED <<docVars, crudVars, rows, pending, sp, ys, rw>>

\* twice = clean_markdown(once)
CleanAgain ==
  /\ cm.pc = "cleaned"
  /\ cm' = [cm EXCEPT !.pc = "done", !.twice = clean_markdown(cm.once)]
  /\ UNCHANGED <<docVars, crudVars, rows, pending, sp, ys, rw>>

NextClean == CleanOnce \/ CleanAgain

SpecClean == InitClean /\ [][NextClean]_vars

\* C11: clean_markdown is idempotent: cleaning a cleaned text gives the
\* same text.
ClaimC11 == cm.pc = "done" => Plain(cm.twice) = Plain(cm.once)

\* ------------------------------------------------- gemini_model: token tools
\* The tokenizer is an external library; what the splitter uses of it is a
\* deterministic segmentation of a text into tokens (encode) and the
\* concatenation of tokens back to text (decode).  The vocabulary below keeps
\* the shapes of tokens that matter to the splitter: single characters, a
\* word piece of two letters, and a full stop glued to the letter after it
\* (as in ".com").
SplitChars == {"a", ".", "?", Lf}
Vocabulary == {<<c>> : c \in SplitChars} \cup {<<"a", "a">>, <<".", "a">>}

PlainTexts(alphabet, n) == UNION {[1..k -> alphabet] : k \in 0..n}

IsPrefix(v, t) == Len(v) <= Len(t) /\ SubSeq(t, 1, Len(v)) = v

LongestToken(t) ==
  CHOOSE v \in Vocabulary :
    /\ IsPrefix(v, t)
    /\ \A w \in Vocabulary : IsPrefix(w, t) => Len(w) <= Len(v)

\* encoding.encode(text)
RECURSIVE encode(_)
encode(t) ==
  IF t = <<>> THEN <<>>
  ELSE LET v == LongestToken(t)
       IN  <<v>> \o encode(SubSeq(t, Len(v) + 1, Len(t)))

\* encoding.decode(tokens)
RECURSIVE decode(_)
decode(toks) == IF toks = <<>> THEN <<>> ELSE Head(toks) \o decode(Tail(toks))

\* count_tokens
count_tokens(t) == Len(encode(t))

\* s[start:end] of Python for start >= 0: a negative end counts from the end.
PySlice(s, start, end) ==
  LET e == IF end < 0
           THEN (IF Len(s) + end < 0 THEN 0 ELSE Len(s) + end)
           ELSE (IF end > Len(s) THEN Len(s) ELSE end)
  IN  SubSeq(s, start + 1, e)

\* str.rfind for one character: the index from 0 of its last occurrence, -1
\* when there is none.
rfind(t, c) ==
  LET at == {i \in 1..Len(t) : t[i] = c}
  IN  IF at = {} THEN -1 ELSE (CHOOSE i \in at : \A j \in at : j <= i) - 1

PyMax(a, b) == IF a >= b THEN a ELSE b
PyMin(a, b) == IF a <= b THEN a ELSE b

\* last_sentence_end = max(chunk_text.rfind("."), chunk_text.rfind("\n"))
last_sentence_end(chunk_text) == PyMax(rfind(chunk_text, "."), rfind(chunk_text, Lf))

\* if last_sentence_end > 0 and end != len(tokens)
ShouldCut_always(last, end, n) == end # n
ShouldCut_tail(last, end, n) == last > 0
ShouldCut(last, end, n) == last > 0 /\ end # n

\* The window of one iteration and the chunk it appends.
WindowEnd(start, max_tokens, toks) == PyMin(start + max_tokens, Len(toks))
WindowText(start, max_tokens, toks) ==
  decode(PySlice(toks, start, WindowEnd(start, max_tokens, toks)))
ChunkText(start, max_tokens, toks) ==
  LET w    == WindowText(start, max_tokens, toks)
      last == last_sentence_end(w)
  IN  IF ShouldCut(last, WindowEnd(start, max_tokens, toks), Len(toks))
      THEN SubSeq(w, 1, last + 1)
      ELSE w

\* ---------------------------------------------------------- split_text_smart
MaxTextLen == 5
MaxBudget == 3
MaxDeficit == 2
MaxIdle == 2

InitSplit ==
  /\ ServiceInit
  /\ cm = NoCall
  /\ sp \in {[pc |-> "called", text |-> t, max_tokens |-> b,
              tokens |-> <<>>, chunks |-> <<>>, windows |-> <<>>,
              start |-> 0] :
               t \in PlainTexts(SplitChars, MaxTextLen),
               b \in (0 - MaxDeficit)..MaxBudget}
  /\ ys = NoCall
  /\ rw = NoCall

\* tokens = encoding.encode(text); chunks = []; start = 0
SplitEncode ==
  /\ sp.pc = "called"
  /\ sp' = [sp EXCEPT !.pc = "loop", !.tokens = encode(sp.text)]
  /\ UNCHANGED <<docVars, crudVars, rows, pending, cm, ys, rw>>

\* One iteration of the while loop; windows keeps the decoded window of each
\* iteration next to the chunk made from it.  A call that makes no progress
\* is followed for MaxIdle iterations beyond the length of the token stream.
SplitLoop ==
  /\ sp.pc = "loop"
  /\ sp.start < Len(sp.tokens)
  /\ Len(sp.chunks) < Len(sp.tokens) + MaxIdle
  /\ LET chunk_text == ChunkText(sp.start, sp.max_tokens, sp.tokens)
     IN  sp' = [sp EXCEPT !.chunks = Append(@, chunk_text),
                          !.windows = Append(@, WindowText(sp.start,
                                               sp.max_tokens, sp.tokens)),
                          !.start = @ + Len(encode(chunk_text))]
  /\ UNCHANGED <<docVars, crudVars, rows, pending, cm, ys, rw>>

\* return chunks
SplitReturn ==
  /\ sp.pc = "loop"
  /\ ~(sp.start < Len(sp.tokens))
  /\ sp' = [sp EXCEPT !.pc = "done"]
  /\ UNCHANGED <<docVars, crudVars, rows, pending, cm, ys, rw>>

NextSplit == SplitEncode \/ SplitLoop \/ SplitReturn

SpecSplit == InitSplit /\ [][NextSplit]_vars

\* The segments joined in order.
RECURSIVE Concat(_)
Concat(chunks) == IF chunks = <<>> THEN <<>> ELSE Head(chunks) \o Concat(Tail(chunks))

\* C12: for a positive max_tokens the segments returned by split_text_smart,
\* concatenated in order, are exactly the text.
ClaimC12 ==
  (sp.pc = "done" /\ sp.max_tokens > 0) => Concat(sp.chunks) = sp.text

\* C16: for a positive max_tokens every iteration of the loop appends a
\* segment of at least one token and moves the cursor strictly forward, so
\* that the loop ends after at most one iteration per token.
ClaimC16 ==
  [][(sp.pc = "loop" /\ sp.max_tokens > 0 /\ sp'.chunks # sp.chunks)
       => /\ count_tokens(sp'.chunks[Len(sp'.chunks)]) >= 1
          /\ sp'.start > sp.start
          /\ Len(sp'.chunks) <= Len(sp.tokens)]_vars

WitnessC16 ==
  /\ sp.pc = "done"
  /\ sp.max_tokens > 0
  /\ Len(sp.chunks) >= 2
  /\ \E i \in 1..Len(sp.chunks) : sp.chunks[i] # sp.windows[i]

\* C17: a call with max_tokens zero or negative fails with an error: it
\* appends no segment and returns no sequence of segments.
ClaimC17 ==
  (sp.pc \in {"loop", "done"} /\ sp.max_tokens <= 0)
    => (sp.pc # "done" /\ sp.chunks = <<>>)

\* C18: a text that is not empty and has at most max_tokens tokens comes back
\* as exactly one segment equal to the text; the empty text comes back as the
\* empty sequence.
ClaimC18 ==
  sp.pc = "done"
    => /\ sp.text = <<>> => sp.chunks = <<>>
       /\ (sp.text # <<>> /\ Len(sp.tokens) <= sp.max_tokens)
            => sp.chunks = <<sp.text>>

WitnessC18 ==
  /\ sp.pc = "done"
  /\ Len(sp.tokens) <= sp.max_tokens
  /\ last_sentence_end(sp.text) > 0
  /\ last_sentence_end(sp.text) + 1 < Len(sp.text)
  /\ sp.chunks = <<sp.text>>

\* The characters that end a sentence, and the newline.
SentenceEnders == {".", "?", Lf}
LastEnder(w) ==
  LET at == {i \in 1..Len(w) : w[i] \in SentenceEnders}
  IN  IF at = {} THEN -1 ELSE (CHOOSE i \in at : \A j \in at : j <= i) - 1

\* C19: every segment but the last is its window cut just after the last
\* sentence-ending character or newline of the window when there is one at a
\* position greater than 0, and the whole window when there is none.
ClaimC19 ==
  (sp.pc = "done" /\ sp.max_tokens > 0)
    => \A i \in 1..(Len(sp.chunks) - 1) :
         LET w == sp.windows[i]
             k == LastEnder(w)
         IN  IF k > 0 THEN sp.chunks[i] = SubSeq(w, 1, k + 1)
                      ELSE sp.chunks[i] = w

\* ---------------------------------------------------- generate_youtube_summary
MaxSegments == 2

PyInt(v) == [type |-> "int", v |-> v]
PyFloat(v) == [type |-> "float", v |-> v]

\* isinstance(x, (int, float))
IsNumber(x) == x.type \in {"int", "float"}

\* getattr(usage, name, None): a count of the response, or None.
UsageAttrs == {PyNone, PyInt(2)}

\* round(duration, 2), in hundredths of a second.
GenerationTimes == {PyFloat(1)}

\* generate_content, the token_usage of a call that returned.
token_usage(i, o, t, g) ==
  [input_tokens |-> i, output_tokens |-> o, total_tokens |-> t,
   generation_time |-> g]

\* generate_content, the usage of a call that raised.
error_usage == [error |-> PyStr("e")]

\* The texts the model of the LLM answers with, before clean_markdown.
RawTexts ==
  {<<>>, <<"a">>, <<"a", Lf, Lf, Spc, Spc, "*", "b">>, <<Bsl, "n", "a", Cr>>}

ErrorText == <<"[", "Error", ":", Spc, "e", "]">>

\* generate_content for the summary of one chunk: (text, usage).
ContentResults ==
  {[text |-> Plain(clean_markdown(Str(raw, 0))), usage |-> token_usage(i, o, t, g)] :
     raw \in RawTexts, i \in UsageAttrs, o \in UsageAttrs, t \in UsageAttrs,
     g \in GenerationTimes}
  \cup {[text |-> ErrorText, usage |-> error_usage]}

\* summaries.append(summary)
Collect_front(summaries, summary) == <<summary>> \o summaries
Collect(summaries, summary) == Append(summaries, summary)

\* for k in total_usage.keys(): if k in usage and isinstance(usage[k], (int, float))
Aggregate(total_usage, usage) ==
  [k \in DOMAIN total_usage |->
     IF k \in DOMAIN usage /\ IsNumber(usage[k])
       THEN total_usage[k] + usage[k].v
       ELSE total_usage[k]]

\* The character of a summary carries the number of the chunk it is for.
InitYoutube ==
  /\ ServiceInit
  /\ cm = NoCall
  /\ sp = NoCall
  /\ rw = NoCall
  /\ ys \in {[pc |-> "called", nchunks |-> n, i |-> 0, summaries |-> <<>>,
              usages |-> <<>>, total_usage |-> <<>>, merged |-> <<>>] :
               n \in 0..MaxSegments}

\* chunks = split_text_smart(text); summaries = []; total_usage = {...: 0}
YsSplit ==
  /\ ys.pc = "called"
  /\ ys' = [ys EXCEPT !.pc = "loop", !.i = 1,
                      !.total_usage = [input_tokens |-> 0, output_tokens |-> 0,
                                       total_tokens |-> 0]]
  /\ UNCHANGED <<docVars, crudVars, rows, pending, cm, sp, rw>>

\* One iteration of the for loop: the call for chunk i, the append and the
\* aggregation; usages keeps what each call reported.
YsChunk ==
  /\ ys.pc = "loop"
  /\ ys.i <= ys.nchunks
  /\ \E r \in ContentResults :
       ys' = [ys EXCEPT !.summaries = Collect(@, Str(r.text, ys.i)),
                        !.usages = Append(@, r.usage),
                        !.total_usage = Aggregate(@, r.usage),
                        !.i = @ + 1]
  /\ UNCHANGED <<docVars, crudVars, rows, pending, cm, sp, rw>>

\* merged_summary = "\n\n".join(summaries); return clean_markdown(merged_summary)
YsMerge ==
  /\ ys.pc = "loop"
  /\ ys.i > ys.nchunks
  /\ ys' = [ys EXCEPT !.pc = "done",
                      !.merged = clean_markdown(join(<<Lf, Lf>>, ys.summaries))]
  /\ UNCHANGED <<docVars, crudVars, rows, pending, cm, sp, rw>>

NextYoutube == YsSplit \/ YsChunk \/ YsMerge

SpecYoutube == InitYoutube /\ [][NextYoutube]_vars

\* The fields of the usage of a call that returned.
MetricFields == DOMAIN token_usage(PyNone, PyNone, PyNone, PyNone)

RECURSIVE SumField(_, _)
SumField(usages, k) ==
  IF usages = <<>> THEN 0
  ELSE (IF k \in DOMAIN Head(usages) /\ IsNumber(Head(usages)[k])
          THEN Head(usages)[k].v ELSE 0)
       + SumField(Tail(usages), k)

\* C14: the total usage returned by generate_youtube_summary has, for every
\* metric field that a per-segment call reported, the sum of the numeric
\* values of that field over the segments.
ClaimC14 ==
  ys.pc = "done"
    => \A k \in MetricFields :
         (\E j \in 1..Len(ys.usages) : k \in DOMAIN ys.usages[j])
           => /\ k \in DOMAIN ys.total_usage
              /\ ys.total_usage[k] = SumField(ys.usages, k)

\* C20: summaries are collected in the order of the chunks, and in the
\* merged notes nothing of a later chunk's summary comes before anything of
\* an earlier chunk's summary.
ClaimC20 ==
  /\ ys.pc \in {"loop", "done"}
       => \A j \in 1..Len(ys.summaries) :
            \A c \in 1..Len(ys.summaries[j]) : ys.summaries[j][c].seg = j
  /\ ys.pc = "done"
       => \A a, b \in 1..Len(ys.merged) :
            a < b => ys.merged[a].seg <= ys.merged[b].seg

WitnessC20 ==
  /\ ys.pc = "done"
  /\ Len(ys.summaries) >= 2
  /\ \E a, b \in 1..Len(ys.merged) : ys.merged[a].seg < ys.merged[b].seg

\* ------------------------------------- document and YouTube requests together
\* The document requests of Spec next to one YouTube request, for one URL
\* and one text of notes.
FirstCaller == CHOOSE c \in Callers : \A d \in Callers : c <= d
AnyUrl == CHOOSE u \in Urls : TRUE
AnyNotes == CHOOSE n \in Notes : TRUE

YoutubeNext ==
  \/ SaveCall(FirstCaller, AnyUrl, AnyNotes)
  \/ SaveFlush(FirstCaller)
  \/ SaveCommit(FirstCaller)

ServiceNext == DocNext \/ YoutubeNext

SpecService == Init /\ [][ServiceNext]_vars

\* C15: a committed row of file_summaries is never changed and never
\* deleted, whatever document and YouTube requests do.
ClaimC15 ==
  [][\A i \in DOMAIN rows : i \in DOMAIN rows' /\ rows'[i] = rows[i]]_vars

WitnessC15 ==
  /\ Len(rows) >= 2
  /\ \E p \in Procs : Ran(p, "commit")
  /\ cout[FirstCaller] = "returned"
  /\ \E p \in Procs : Returned(p) /\ rowAtEntry[p]

\* ------------------------------------------- the summarizer's failure contract
\* rewrite_notes_full: builds the prompt and returns what generate_content
\* returns; ok says whether the LLM call inside generate_content succeeded.
rewrite_notes_full_uncaught(ok, n) ==
  IF ok
    THEN [kind |-> "return", rewritten_text |-> generate_content(ok, n).text,
          token_usage |-> generate_content(ok, n).usage]
    ELSE Raised("Exception")
rewrite_notes_full(ok, n) ==
  [kind |-> "return", rewritten_text |-> generate_content(ok, n).text,
   token_usage |-> generate_content(ok, n).usage]

\* A call of generate_youtube_summary and a call of rewrite_notes_full.
InitSummarizer ==
  /\ ServiceInit
  /\ cm = NoCall
  /\ sp = NoCall
  /\ ys \in {[pc |-> "called", nchunks |-> n, i |-> 0, summaries |-> <<>>,
              usages |-> <<>>, total_usage |-> <<>>, merged |-> <<>>] :
               n \in 0..MaxSegments}
  /\ rw = [pc |-> "called"]

\* rewritten_text, token_usage = generate_content(prompt, ...); return
RewriteNotes ==
  /\ rw.pc = "called"
  /\ \E ok \in BOOLEAN, n \in Notes :
       rw' = [pc |-> "done", failed |-> ~ok, out |-> rewrite_notes_full(ok, n)]
  /\ UNCHANGED <<docVars, crudVars, rows, pending, cm, sp, ys>>

NextSummarizer == NextYoutube \/ RewriteNotes

SpecSummarizer == InitSummarizer /\ [][NextSummarizer]_vars

\* pat occurs in t as a run of consecutive characters.
Contains(t, pat) ==
  \E i \in 0..(Len(t) - Len(pat)) : SubSeq(t, i + 1, i + Len(pat)) = pat

\* C21: a failed LLM call is reported in band.  rewrite_notes_full returns,
\* and after a failure what it returns is the error marker with the usage
\* record that has the error field; generate_youtube_summary collects the
\* marker as the summary of the chunk whose call failed and returns notes
\* that hold it.
ClaimC21 ==
  /\ rw.pc = "done"
       => /\ rw.out.kind = "return"
          /\ rw.failed => /\ rw.out.rewritten_text = ErrorMarker
                          /\ rw.out.token_usage = "error"
  /\ ys.pc \in {"loop", "done"}
       => \A j \in 1..Len(ys.usages) :
            ys.usages[j] = error_usage => Plain(ys.summaries[j]) = ErrorText
  /\ ys.pc = "done"
       => \A j \in 1..Len(ys.usages) :
            ys.usages[j] = error_usage
              => Contains(ys.merged, Str(ErrorText, j))

WitnessC21 ==
  /\ rw.pc = "done" /\ rw.failed
  /\ ys.pc = "done"
  /\ Len(ys.usages) >= 2
  /\ \E j, k \in 1..Len(ys.usages) :
       ys.usages[j] = error_usage /\ ys.usages[k] # error_usage

\* The number of times a stage is in the trace of an invocation.
Times(tr, stage) == Cardinality({i \in DOMAIN tr : tr[i] = stage})

\* C22: the step in which process_file raises leaves the committed rows and
\* every session's uncommitted row as they were, and the invocation has made
\* no LLM call and no INSERT; the committed rows change only by the commit
\* of the one row an invocation inserted after its LLM call; and an
\* invocation whose INSERT failed holds no uncommitted row.
ClaimC22 ==
  [][\A p \in Procs :
       /\ (result'[p].kind = "raise" /\ result[p].kind # "raise")
            => /\ rows' = rows
               /\ pending' = pending
               /\ pending[DocSession(p)] = NoRow
               /\ \A st \in {"llm", "insert", "commit"} : Times(trace'[p], st) = 0
       /\ (pc[p] = "commit" /\ pc'[p] # "commit")
            => /\ Times(trace'[p], "llm") = 1
               /\ Times(trace'[p], "insert") = 1
               /\ rows' = Append(rows, pending[DocSession(p)])
       /\ (\A q \in Procs : pc[q] = "commit" => pc'[q] = "commit")
            => rows' = rows
       /\ Times(trace'[p], "rollback") > 0 => pending'[DocSession(p)] = NoRow]_vars

\* One invocation has raised the size error and another has committed its
\* row, the only row of the table.
WitnessC22 ==
  /\ Len(rows) = 1
  /\ \E p, q \in Procs :
       /\ Raise(p) /\ result[p].error = "ValueError: Document too large"
       /\ Ran(q, "commit")

\* C23: the response of upload_document to a cache hit for some bytes has
\* under structured_notes the value that the response to the request that
\* missed, generated the notes and stored the row for those bytes has there.
ClaimC23 ==
  \A p, q \in Procs :
    ( /\ file[p].bytes = file[q].bytes
      /\ pc[p] = "done" /\ resp[p].status = 200 /\ resp[p].cached = TRUE
      /\ pc[q] = "done" /\ resp[q].status = 200 /\ Ran(q, "commit")
      /\ ~local[q].llm_failed )
    => resp[p].structured_notes = resp[q].structured_notes

====
